---- MODULE Spec2Model ----
(***************************************************************************)
(* Model of streamlit_app.py, the Karma Yoga journal wizard.               *)
(*                                                                         *)
(* The script is re-executed from top to bottom on every user interaction. *)
(* One action of the model is one execution of the script: a run with one  *)
(* form's submit button pressed, or a run with no button pressed.  A run   *)
(* ends at st.stop(), at an uncaught exception (Streamlit shows the        *)
(* exception and keeps st.session_state as written so far), or at the end  *)
(* of the script.                                                          *)
(*                                                                         *)
(* Text values the code transforms (pdf text, summaries, reports, dates)   *)
(* are sequences of one-character strings, the empty string being << >>;   *)
(* values the code only stores and forwards are TLA+ strings.              *)
(***************************************************************************)
EXTENDS Integers, Sequences, FiniteSets, TLC

VARIABLES
    session_state,   \* st.session_state of the current browser session (a dict)
    rendered,        \* the step whose widgets the last run put on the screen
    shown,           \* the error the last run put on the screen ("" if none)
    configured_key,  \* the process-wide key set by genai.configure
    summarized,      \* pdf texts summarize_pdf_text has returned for (process-wide)
    sid,             \* number of the current browser session in this process
    failures,        \* runs that ended with an uncaught exception so far
    session_calls,   \* calls made so far in this session, by callee
    last_run         \* what the last run of the script was given and what it called

vars == <<session_state, rendered, shown, configured_key, summarized, sid,
          failures, session_calls, last_run>>

----------------------------------------------------------------------------
(* Bounds of the model *)

MaxSessions == 2
MaxFailures == 1

----------------------------------------------------------------------------
(* Inputs *)

ApiKeys == {"", "AIza-1"}
Projects == {"Health Camp", "Tree Plantation Drive"}
VisitNumbers == {"1st", "2nd", "3rd"}
DetailsTexts == {"", "Distributed medicine to 40 villagers."}
MediaUploads == {<< >>, <<[name |-> "a.png"], [name |-> "b.mp4"]>>}
Dates == {[year |-> 2024, month |-> 1, day |-> 5],
          [year |-> 2025, month |-> 12, day |-> 31]}

\* The key the generative-AI library holds when the process starts: none, or
\* one pre-loaded in the process environment.
EnvironmentKeys == {"unset", "AIza-env"}

None == [none |-> TRUE]
\* An uploaded file: unreadable as a PDF, or a PDF with its text given as the
\* lengths of its paragraphs (the splitter only looks at lengths).
PdfFiles == {[malformed |-> TRUE, paragraphs |-> << >>],
             [malformed |-> FALSE, paragraphs |-> << >>],
             [malformed |-> FALSE, paragraphs |-> <<1200>>],
             [malformed |-> FALSE, paragraphs |-> <<1200, 1200>>]}

\* What the hosted model may answer: any text.
BackendErrors == {"QuotaExceeded", "Unavailable"}
SummaryOutputs == {<<"S">>, <<" ", "S", "\n">>, <<" ">>}
ReportOutputs == {<<"R">>, <<"R", "\n">>}

----------------------------------------------------------------------------
(* Helpers *)

\* d[k] = v on a dict
Put(d, k, v) == (k :> v) @@ d

Has(d, k) == k \in DOMAIN d

\* dict.get(k, default)
Get(d, k, default) == IF k \in DOMAIN d THEN d[k] ELSE default

IsSpace(c) == c \in {" ", "\n", "\t"}

RECURSIVE LStrip(_)
LStrip(s) == IF s # << >> /\ IsSpace(Head(s)) THEN LStrip(Tail(s)) ELSE s

RECURSIVE RStrip(_)
RStrip(s) ==
    IF s # << >> /\ IsSpace(s[Len(s)]) THEN RStrip(SubSeq(s, 1, Len(s) - 1)) ELSE s

\* str.strip()
Strip(s) == RStrip(LStrip(s))

----------------------------------------------------------------------------
(* Document Extractor *)

\* extract_text_from_pdf: pdfminer raises on bytes that are no PDF and
\* returns the text otherwise; nothing is caught here.
extract_text_from_pdf(pdf_file) ==
    IF pdf_file.malformed
    THEN [raised |-> TRUE, error |-> "ExtractionError", value |-> << >>]
    ELSE [raised |-> FALSE, error |-> "", value |-> pdf_file.paragraphs]

----------------------------------------------------------------------------
(* Summarizer *)

ChunkSize == 2000
ChunkOverlap == 200
Separator == <<"\n", "\n">>

RECURSIVE JoinedLen(_)
\* length of the paragraphs of a chunk joined by the separator
JoinedLen(cur) ==
    IF cur = << >> THEN 0
    ELSE Head(cur) + (IF Len(cur) > 1 THEN Len(Separator) ELSE 0) + JoinedLen(Tail(cur))

RECURSIVE DropForOverlap(_, _)
\* paragraphs kept from the chunk just emitted as overlap for the next one
DropForOverlap(cur, d) ==
    IF \/ JoinedLen(cur) > ChunkOverlap
       \/ (JoinedLen(cur) + d + Len(Separator) > ChunkSize /\ JoinedLen(cur) > 0)
    THEN DropForOverlap(Tail(cur), d)
    ELSE cur

RECURSIVE MergeSplits(_, _, _)
MergeSplits(splits, cur, docs) ==
    IF splits = << >>
    THEN (IF cur = << >> THEN docs ELSE Append(docs, cur))
    ELSE LET d == Head(splits)
             full == cur # << >> /\ JoinedLen(cur) + d + Len(Separator) > ChunkSize
         IN  IF full
             THEN MergeSplits(Tail(splits), Append(DropForOverlap(cur, d), d),
                              Append(docs, cur))
             ELSE MergeSplits(Tail(splits), Append(cur, d), docs)

\* CharacterTextSplitter(chunk_size=2000, chunk_overlap=200).split_text
split_text(pdf_text) == MergeSplits(pdf_text, << >>, << >>)

\* Backend calls of one map_reduce run: one per chunk, one to combine.
MapReduceCalls(pdf_text) == Len(split_text(pdf_text)) + 1

\* summarize_pdf_text running the chain once more after a failed backend call
summarize_pdf_text_retry(pdf_text, fail_at, err, out) ==
    [raised |-> FALSE, error |-> "", value |-> Strip(out),
     backend_calls |-> (IF fail_at \in 1..MapReduceCalls(pdf_text) THEN fail_at ELSE 0)
                          + MapReduceCalls(pdf_text)]

\* summarize_pdf_text.  fail_at = 0: every backend call answers and the
\* combine call answers out; fail_at = i: the i-th backend call raises err,
\* which is not caught and not retried.  Nothing is remembered between calls.
summarize_pdf_text(pdf_text, fail_at, err, out) ==
    IF fail_at \in 1..MapReduceCalls(pdf_text)
    THEN [raised |-> TRUE, error |-> err, value |-> << >>, backend_calls |-> fail_at]
    ELSE [raised |-> FALSE, error |-> "", value |-> Strip(out),
          backend_calls |-> MapReduceCalls(pdf_text)]

----------------------------------------------------------------------------
(* Report Composer *)

DigitChar == <<"0", "1", "2", "3", "4", "5", "6", "7", "8", "9">>

RECURSIVE ZeroPad(_, _)
\* n in decimal, at least width digits
ZeroPad(n, width) ==
    IF width <= 1 /\ n < 10 THEN <<DigitChar[n + 1]>>
    ELSE Append(ZeroPad(n \div 10, width - 1), DigitChar[(n % 10) + 1])

\* visit_date.strftime("%Y-%m-%d")
strftime(visit_date) ==
    ZeroPad(visit_date.year, 4) \o <<"-">> \o ZeroPad(visit_date.month, 2)
        \o <<"-">> \o ZeroPad(visit_date.day, 2)

NoDateProvided ==
    <<"N", "o", " ", "d", "a", "t", "e", " ", "p", "r", "o", "v", "i", "d", "e", "d">>

\* generate_journal_report: one journal_chain.run with the six fields; the
\* backend answers out (outcome "ok") or raises outcome.  The answer is
\* returned as it is.
generate_journal_report(previous_report_summary, project, visit_number, current_visit_details, media_summary, visit_date, outcome, out) ==
    LET date_str == IF visit_date # None THEN strftime(visit_date) ELSE NoDateProvided
        prompt == [previous_report_summary |-> previous_report_summary,
                   project |-> project,
                   visit_number |-> visit_number,
                   current_visit_details |-> current_visit_details,
                   media_summary |-> media_summary,
                   visit_date |-> date_str]
    IN  IF outcome = "ok"
        THEN [raised |-> FALSE, error |-> "", value |-> out, prompt |-> prompt]
        ELSE [raised |-> TRUE, error |-> outcome, value |-> << >>, prompt |-> prompt]

RECURSIVE Join(_, _)
\* sep.join(names), as pieces
Join(names, sep) ==
    IF names = << >> THEN << >>
    ELSE IF Len(names) = 1 THEN names
    ELSE <<Head(names), sep>> \o Join(Tail(names), sep)

\* lines 204-208
MediaSummary(media_files) ==
    IF media_files # << >>
    THEN LET file_names == [i \in 1..Len(media_files) |-> media_files[i].name]
         IN  <<"Uploaded media files: ">> \o Join(file_names, ", ") \o <<".">>
    ELSE <<"No media files provided.">>

----------------------------------------------------------------------------
(* Session Wizard: what a run does when a form's button was pressed.  Each *)
(* handler maps the session dict and the form's inputs to the dict the run *)
(* leaves behind, the error it shows and the calls it made.                *)

ApiKeyRequired == "API Key is required to proceed."

\* step1_submit without the `if not api_key` test
step1_submit_unchecked(ss, api_key) ==
    [ss |-> Put(Put(ss, "api_key", api_key), "step", 2),
     error |-> "", raised |-> FALSE, configure |-> <<api_key>>]

\* lines 124-131
step1_submit(ss, api_key) ==
    IF api_key = ""
    THEN [ss |-> ss, error |-> ApiKeyRequired, raised |-> FALSE, configure |-> << >>]
    ELSE [ss |-> Put(Put(ss, "api_key", api_key), "step", 2),
          error |-> "", raised |-> FALSE, configure |-> <<api_key>>]

\* step2_submit without the first-visit branch
step2_submit_noskip(ss, project, visit_number) ==
    Put(Put(Put(ss, "project", project), "visit_number", visit_number), "step", 3)

\* step2_submit without line 155: the first-visit branch stores no summary
step2_submit_nosummary(ss, project, visit_number) ==
    LET s1 == Put(Put(ss, "project", project), "visit_number", visit_number)
    IN  IF visit_number = "1st" THEN Put(s1, "step", 4) ELSE Put(s1, "step", 3)

\* lines 151-159
step2_submit(ss, project, visit_number) ==
    LET s1 == Put(Put(ss, "project", project), "visit_number", visit_number)
    IN  IF visit_number = "1st"
        THEN Put(Put(s1, "previous_report_summary", << >>), "step", 4)
        ELSE Put(s1, "step", 3)

\* step3_submit without the `if pdf_text` test: every readable upload is
\* summarized
step3_submit_always_summarize(ss, previous_pdf, fail_at, err, out) ==
    IF previous_pdf # None
    THEN LET ex == extract_text_from_pdf(previous_pdf)
             sm == summarize_pdf_text(ex.value, fail_at, err, out)
         IN  IF ex.raised
             THEN [ss |-> ss, error |-> ex.error, raised |-> TRUE,
                   extractor_calls |-> 1, summarizer_calls |-> 0,
                   backend_calls |-> 0, returned_for |-> {}, summarizer_returned |-> << >>]
             ELSE IF sm.raised
             THEN [ss |-> ss, error |-> sm.error, raised |-> TRUE,
                   extractor_calls |-> 1, summarizer_calls |-> 1,
                   backend_calls |-> sm.backend_calls, returned_for |-> {}, summarizer_returned |-> << >>]
             ELSE [ss |-> Put(Put(ss, "previous_report_summary", sm.value), "step", 4),
                   error |-> "", raised |-> FALSE,
                   extractor_calls |-> 1, summarizer_calls |-> 1,
                   backend_calls |-> sm.backend_calls,
                   returned_for |-> {ex.value}, summarizer_returned |-> <<sm.value>>]
    ELSE [ss |-> Put(Put(ss, "previous_report_summary", << >>), "step", 4),
          error |-> "", raised |-> FALSE,
          extractor_calls |-> 0, summarizer_calls |-> 0,
          backend_calls |-> 0, returned_for |-> {}, summarizer_returned |-> << >>]

\* step3_submit catching the summarizer's exception: a stand-in summary is
\* stored and the wizard moves on
step3_submit_fallback(ss, previous_pdf, fail_at, err, out) ==
    IF previous_pdf # None
    THEN LET ex == extract_text_from_pdf(previous_pdf)
             sm == summarize_pdf_text(ex.value, fail_at, err, out)
         IN  IF ex.raised
             THEN [ss |-> ss, error |-> ex.error, raised |-> TRUE,
                   extractor_calls |-> 1, summarizer_calls |-> 0,
                   backend_calls |-> 0, returned_for |-> {},
                   summarizer_returned |-> << >>]
             ELSE IF ex.value # << >>
             THEN IF sm.raised
                  THEN [ss |-> Put(Put(ss, "previous_report_summary", <<"n", "/", "a">>),
                                   "step", 4),
                        error |-> sm.error, raised |-> TRUE,
                        extractor_calls |-> 1, summarizer_calls |-> 1,
                        backend_calls |-> sm.backend_calls, returned_for |-> {},
                        summarizer_returned |-> << >>]
                  ELSE [ss |-> Put(Put(ss, "previous_report_summary", sm.value),
                                   "step", 4),
                        error |-> "", raised |-> FALSE,
                        extractor_calls |-> 1, summarizer_calls |-> 1,
                        backend_calls |-> sm.backend_calls,
                        returned_for |-> {ex.value},
                        summarizer_returned |-> <<sm.value>>]
             ELSE [ss |-> Put(Put(ss, "previous_report_summary", << >>), "step", 4),
                   error |-> "", raised |-> FALSE,
                   extractor_calls |-> 1, summarizer_calls |-> 0,
                   backend_calls |-> 0, returned_for |-> {},
                   summarizer_returned |-> << >>]
    ELSE [ss |-> Put(Put(ss, "previous_report_summary", << >>), "step", 4),
          error |-> "", raised |-> FALSE,
          extractor_calls |-> 0, summarizer_calls |-> 0,
          backend_calls |-> 0, returned_for |-> {},
          summarizer_returned |-> << >>]

\* lines 169-181
step3_submit(ss, previous_pdf, fail_at, err, out) ==
    IF previous_pdf # None
    THEN LET ex == extract_text_from_pdf(previous_pdf)
             pdf_text == ex.value
             sm == summarize_pdf_text(pdf_text, fail_at, err, out)
         IN  IF ex.raised
             THEN [ss |-> ss, error |-> ex.error, raised |-> TRUE,
                   extractor_calls |-> 1, summarizer_calls |-> 0,
                   backend_calls |-> 0, returned_for |-> {}, summarizer_returned |-> << >>]
             ELSE IF pdf_text # << >>
             THEN IF sm.raised
                  THEN [ss |-> ss, error |-> sm.error, raised |-> TRUE,
                        extractor_calls |-> 1, summarizer_calls |-> 1,
                        backend_calls |-> sm.backend_calls, returned_for |-> {}, summarizer_returned |-> << >>]
                  ELSE [ss |-> Put(Put(ss, "previous_report_summary", sm.value),
                                   "step", 4),
                        error |-> "", raised |-> FALSE,
                        extractor_calls |-> 1, summarizer_calls |-> 1,
                        backend_calls |-> sm.backend_calls,
                        returned_for |-> {pdf_text},
                        summarizer_returned |-> <<sm.value>>]
             ELSE [ss |-> Put(Put(ss, "previous_report_summary", << >>), "step", 4),
                   error |-> "", raised |-> FALSE,
                   extractor_calls |-> 1, summarizer_calls |-> 0,
                   backend_calls |-> 0, returned_for |-> {}, summarizer_returned |-> << >>]
    ELSE [ss |-> Put(Put(ss, "previous_report_summary", << >>), "step", 4),
          error |-> "", raised |-> FALSE,
          extractor_calls |-> 0, summarizer_calls |-> 0,
          backend_calls |-> 0, returned_for |-> {}, summarizer_returned |-> << >>]

\* Step4Fields adding the uploaded media to the media already stored
Step4Fields_append(ss, media_files, current_visit_details, visit_date) ==
    LET all_media == Get(ss, "media_files", << >>) \o media_files
    IN  Put(Put(Put(Put(ss, "media_files", all_media),
                    "current_visit_details", current_visit_details),
                "visit_date", visit_date),
            "media_summary", MediaSummary(all_media))

\* The fields step 4 writes before it calls the composer (lines 199-210)
Step4Fields(ss, media_files, current_visit_details, visit_date) ==
    Put(Put(Put(Put(ss, "media_files", media_files),
                "current_visit_details", current_visit_details),
            "visit_date", visit_date),
        "media_summary", MediaSummary(media_files))

\* step4_submit sending the user back to the credential form when the
\* backend fails
step4_submit_reenter(ss, media_files, current_visit_details, visit_date, outcome, out) ==
    LET s1 == Step4Fields(ss, media_files, current_visit_details, visit_date)
        gen == generate_journal_report(
                   Get(s1, "previous_report_summary", << >>),
                   s1["project"], s1["visit_number"], s1["current_visit_details"],
                   s1["media_summary"], s1["visit_date"], outcome, out)
    IN  IF gen.raised
        THEN [ss |-> Put(s1, "step", 1), error |-> gen.error, raised |-> TRUE,
              composer_args |-> <<gen.prompt>>, backend_calls |-> 1,
              backend_returned |-> << >>]
        ELSE [ss |-> Put(Put(s1, "report", gen.value), "step", 5),
              error |-> "", raised |-> FALSE,
              composer_args |-> <<gen.prompt>>, backend_calls |-> 1,
              backend_returned |-> <<gen.value>>]

\* step4_submit storing a placeholder report before the call
step4_submit_early_report(ss, media_files, current_visit_details, visit_date, outcome, out) ==
    LET s1 == Put(Step4Fields(ss, media_files, current_visit_details, visit_date),
                  "report", << >>)
        gen == generate_journal_report(
                   Get(s1, "previous_report_summary", << >>),
                   s1["project"], s1["visit_number"], s1["current_visit_details"],
                   s1["media_summary"], s1["visit_date"], outcome, out)
    IN  IF gen.raised
        THEN [ss |-> s1, error |-> gen.error, raised |-> TRUE,
              composer_args |-> <<gen.prompt>>, backend_calls |-> 1,
              backend_returned |-> << >>]
        ELSE [ss |-> Put(Put(s1, "report", gen.value), "step", 5),
              error |-> "", raised |-> FALSE,
              composer_args |-> <<gen.prompt>>, backend_calls |-> 1,
              backend_returned |-> <<gen.value>>]

\* step4_submit catching the backend's exception and going on to step 5
step4_submit_swallow(ss, media_files, current_visit_details, visit_date, outcome, out) ==
    LET s1 == Step4Fields(ss, media_files, current_visit_details, visit_date)
        gen == generate_journal_report(
                   Get(s1, "previous_report_summary", << >>),
                   s1["project"], s1["visit_number"], s1["current_visit_details"],
                   s1["media_summary"], s1["visit_date"], outcome, out)
    IN  IF gen.raised
        THEN [ss |-> Put(s1, "step", 5), error |-> gen.error, raised |-> TRUE,
              composer_args |-> <<gen.prompt>>, backend_calls |-> 1,
              backend_returned |-> << >>]
        ELSE [ss |-> Put(Put(s1, "report", gen.value), "step", 5),
              error |-> "", raised |-> FALSE,
              composer_args |-> <<gen.prompt>>, backend_calls |-> 1,
              backend_returned |-> <<gen.value>>]

\* step4_submit dropping the prior summary when the backend fails
step4_submit_reset_summary(ss, media_files, current_visit_details, visit_date, outcome, out) ==
    LET s1 == Step4Fields(ss, media_files, current_visit_details, visit_date)
        gen == generate_journal_report(
                   Get(s1, "previous_report_summary", << >>),
                   s1["project"], s1["visit_number"], s1["current_visit_details"],
                   s1["media_summary"], s1["visit_date"], outcome, out)
    IN  IF gen.raised
        THEN [ss |-> Put(s1, "previous_report_summary", << >>),
              error |-> gen.error, raised |-> TRUE,
              composer_args |-> <<gen.prompt>>, backend_calls |-> 1,
              backend_returned |-> << >>]
        ELSE [ss |-> Put(Put(s1, "report", gen.value), "step", 5),
              error |-> "", raised |-> FALSE,
              composer_args |-> <<gen.prompt>>, backend_calls |-> 1,
              backend_returned |-> <<gen.value>>]

\* step4_submit calling the backend a second time when the first call fails
step4_submit_twice(ss, media_files, current_visit_details, visit_date, outcome, out) ==
    LET s1 == Step4Fields(ss, media_files, current_visit_details, visit_date)
        gen == generate_journal_report(
                   Get(s1, "previous_report_summary", << >>),
                   s1["project"], s1["visit_number"], s1["current_visit_details"],
                   s1["media_summary"], s1["visit_date"], "ok", out)
    IN  [ss |-> Put(Put(s1, "report", gen.value), "step", 5),
         error |-> "", raised |-> FALSE,
         composer_args |-> <<gen.prompt>>,
         backend_calls |-> IF outcome = "ok" THEN 1 ELSE 2,
         backend_returned |-> <<gen.value>>]

\* step4_submit storing the report stripped of surrounding whitespace
step4_submit_strip(ss, media_files, current_visit_details, visit_date, outcome, out) ==
    LET s1 == Step4Fields(ss, media_files, current_visit_details, visit_date)
        gen == generate_journal_report(
                   Get(s1, "previous_report_summary", << >>),
                   s1["project"], s1["visit_number"], s1["current_visit_details"],
                   s1["media_summary"], s1["visit_date"], outcome, out)
    IN  IF gen.raised
        THEN [ss |-> s1, error |-> gen.error, raised |-> TRUE,
              composer_args |-> <<gen.prompt>>, backend_calls |-> 1,
              backend_returned |-> << >>]
        ELSE [ss |-> Put(Put(s1, "report", Strip(gen.value)), "step", 5),
              error |-> "", raised |-> FALSE,
              composer_args |-> <<gen.prompt>>, backend_calls |-> 1,
              backend_returned |-> <<gen.value>>]

\* lines 198-223
step4_submit(ss, media_files, current_visit_details, visit_date, outcome, out) ==
    LET s1 == Step4Fields(ss, media_files, current_visit_details, visit_date)
        gen == generate_journal_report(
                   Get(s1, "previous_report_summary", << >>),
                   s1["project"], s1["visit_number"], s1["current_visit_details"],
                   s1["media_summary"], s1["visit_date"], outcome, out)
    IN  IF gen.raised
        THEN [ss |-> s1, error |-> gen.error, raised |-> TRUE,
              composer_args |-> <<gen.prompt>>, backend_calls |-> 1,
              backend_returned |-> << >>]
        ELSE [ss |-> Put(Put(s1, "report", gen.value), "step", 5),
              error |-> "", raised |-> FALSE,
              composer_args |-> <<gen.prompt>>, backend_calls |-> 1,
              backend_returned |-> <<gen.value>>]

\* What a run of the script puts on the screen for a step (lines 116-234):
\* the step's form, or at step 5 the report and its download button.
Screen(ss) ==
    IF ss["step"] = 5
    THEN [form |-> 5, report |-> <<ss["report"]>>,
          download |-> <<[data |-> ss["report"], file_name |-> "journal_report.txt",
                          mime |-> "text/plain"]>>]
    ELSE [form |-> ss["step"], report |-> << >>, download |-> << >>]

----------------------------------------------------------------------------
(* State *)

\* accepted: the runs of this session that moved the wizard to another step
NoCalls == [extractor |-> 0, summarizer |-> 0, backend |-> 0, composer |-> 0,
            accepted |-> 0]

NoRun == [form |-> 0, input |-> None, extractor_calls |-> 0, summarizer_calls |-> 0,
          backend_calls |-> 0, composer_args |-> << >>, backend_returned |-> << >>,
          summarizer_returned |-> << >>, repeat_text |-> FALSE, resubmit |-> FALSE]

\* lines 112-113: a new session has no step; the first run sets it to 1 and
\* shows the credential form.
Init ==
    /\ session_state = [step |-> 1]
    /\ rendered = 1
    /\ shown = ""
    /\ configured_key \in EnvironmentKeys
    /\ summarized = {}
    /\ sid = 1
    /\ failures = 0
    /\ session_calls = NoCalls
    /\ last_run = NoRun

step == session_state["step"]

AddCalls(c, e, s, b, g, moved) ==
    [extractor |-> c.extractor + e, summarizer |-> c.summarizer + s,
     backend |-> c.backend + b, composer |-> c.composer + g,
     accepted |-> c.accepted + (IF moved THEN 1 ELSE 0)]

\* The run about to be made presses the button of the form the last run was
\* submitted from, with the same inputs.
Resubmits(form, input) == last_run.form = form /\ last_run.input = input

----------------------------------------------------------------------------
(* Actions: one run of the script each *)

\* The credential form is on the screen and its Next button is pressed.
SubmitApiKey ==
    /\ rendered = 1 /\ step = 1
    /\ \E api_key \in ApiKeys :
         \E r \in {step1_submit(session_state, api_key)} :
             /\ session_state' = r.ss
             /\ shown' = r.error
             /\ configured_key' = IF r.configure # << >> THEN r.configure[1]
                                  ELSE configured_key
             /\ session_calls' = AddCalls(session_calls, 0, 0, 0, 0,
                                          r.ss["step"] # step)
             /\ last_run' = [NoRun EXCEPT !.form = 1, !.input = [api_key |-> api_key],
                                          !.resubmit = Resubmits(1, [api_key |-> api_key])]
    /\ rendered' = 1
    /\ UNCHANGED <<summarized, sid, failures>>

\* The general-information form is on the screen and Next is pressed.
SubmitGeneralInfo ==
    /\ rendered = 2 /\ step = 2
    /\ \E project \in Projects, visit_number \in VisitNumbers :
         /\ session_state' = step2_submit(session_state, project, visit_number)
         /\ last_run' = [NoRun EXCEPT !.form = 2,
                            !.input = [project |-> project,
                                       visit_number |-> visit_number]]
    /\ session_calls' = AddCalls(session_calls, 0, 0, 0, 0, step' # step)
    /\ shown' = ""
    /\ rendered' = 2
    /\ UNCHANGED <<configured_key, summarized, sid, failures>>

\* Where the backend may fail during a step-3 run with this upload.
FailPoints(previous_pdf) ==
    IF previous_pdf # None /\ ~previous_pdf.malformed /\ previous_pdf.paragraphs # << >>
    THEN 0..MapReduceCalls(previous_pdf.paragraphs)
    ELSE {0}

\* The previous-visit form is on the screen and Next is pressed.
SubmitPreviousVisit ==
    /\ rendered = 3 /\ step = 3
    /\ \E previous_pdf \in PdfFiles \cup {None} :
       \E fail_at \in FailPoints(previous_pdf), err \in BackendErrors,
          out \in SummaryOutputs :
         \E r \in {step3_submit(session_state, previous_pdf, fail_at, err, out)} :
             /\ r.raised => failures < MaxFailures
             /\ session_state' = r.ss
             /\ shown' = r.error
             /\ failures' = IF r.raised THEN failures + 1 ELSE failures
             /\ summarized' = summarized \cup r.returned_for
             /\ session_calls' = AddCalls(session_calls, r.extractor_calls,
                                          r.summarizer_calls, r.backend_calls, 0,
                                          r.ss["step"] # step)
             /\ last_run' = [form |-> 3, input |-> [previous_pdf |-> previous_pdf],
                             extractor_calls |-> r.extractor_calls,
                             summarizer_calls |-> r.summarizer_calls,
                             backend_calls |-> r.backend_calls,
                             composer_args |-> << >>,
                             backend_returned |-> << >>,
                             summarizer_returned |-> r.summarizer_returned,
                             repeat_text |-> /\ r.summarizer_calls > 0
                                             /\ previous_pdf.paragraphs \in summarized,
                             resubmit |-> Resubmits(3, [previous_pdf |-> previous_pdf])]
    /\ rendered' = 3
    /\ UNCHANGED <<configured_key, sid>>

\* The current-visit form is on the screen and Generate is pressed.
SubmitCurrentVisit ==
    /\ rendered = 4 /\ step = 4
    /\ \E media_files \in MediaUploads, current_visit_details \in DetailsTexts,
          visit_date \in Dates, outcome \in {"ok"} \cup BackendErrors,
          out \in ReportOutputs :
         \E r \in {step4_submit(session_state, media_files, current_visit_details,
                                visit_date, outcome, out)} :
             /\ r.raised => failures < MaxFailures
             /\ session_state' = r.ss
             /\ shown' = r.error
             /\ failures' = IF r.raised THEN failures + 1 ELSE failures
             /\ session_calls' = AddCalls(session_calls, 0, 0, r.backend_calls,
                                          Len(r.composer_args), r.ss["step"] # step)
             /\ last_run' = [form |-> 4,
                             input |-> [media_files |-> media_files,
                                        current_visit_details |-> current_visit_details,
                                        visit_date |-> visit_date],
                             extractor_calls |-> 0, summarizer_calls |-> 0,
                             backend_calls |-> r.backend_calls,
                             composer_args |-> r.composer_args,
                             backend_returned |-> r.backend_returned,
                             summarizer_returned |-> << >>,
                             repeat_text |-> FALSE,
                             resubmit |-> Resubmits(4,
                                 [media_files |-> media_files,
                                  current_visit_details |-> current_visit_details,
                                  visit_date |-> visit_date])]
    /\ rendered' = 4
    /\ UNCHANGED <<configured_key, summarized, sid>>

\* Any interaction that presses no button of the form of the current step:
\* the second press of a button whose form's step is over, a click on the
\* download button, a browser refresh of the page.  The script runs with
\* every `submitted` False and shows the current step.
Rerun ==
    /\ rendered' = step
    /\ shown' = ""
    /\ last_run' = NoRun
    /\ UNCHANGED <<session_state, configured_key, summarized, sid, failures,
                   session_calls>>

\* Another browser session is served by the same process: a fresh
\* st.session_state; module-level and library state stay.
NewSession ==
    /\ sid < MaxSessions
    /\ sid' = sid + 1
    /\ session_state' = [step |-> 1]
    /\ rendered' = 1
    /\ shown' = ""
    /\ session_calls' = NoCalls
    /\ last_run' = NoRun
    /\ UNCHANGED <<configured_key, summarized, failures>>

Next ==
    \/ SubmitApiKey
    \/ SubmitGeneralInfo
    \/ SubmitPreviousVisit
    \/ SubmitCurrentVisit
    \/ Rerun
    \/ NewSession

Spec == Init /\ [][Next]_vars

\* One session in which neither the extractor nor the backend fails and the
\* user keeps going: every run is made in the end, and at each step the form
\* on the screen is in the end submitted with inputs the step accepts.
SubmitApiKeyAccepted == SubmitApiKey /\ step' = 2

SubmitPreviousVisitOk == SubmitPreviousVisit /\ failures' = failures

SubmitCurrentVisitOk == SubmitCurrentVisit /\ failures' = failures

LiveNext ==
    \/ SubmitApiKey
    \/ SubmitGeneralInfo
    \/ SubmitPreviousVisitOk
    \/ SubmitCurrentVisitOk
    \/ Rerun

LiveSpec ==
    /\ Init
    /\ [][LiveNext]_vars
    /\ WF_vars(Rerun)
    /\ WF_vars(SubmitApiKeyAccepted)
    /\ WF_vars(SubmitGeneralInfo)
    /\ WF_vars(SubmitPreviousVisitOk)
    /\ WF_vars(SubmitCurrentVisitOk)

----------------------------------------------------------------------------
(* Properties *)

previous_report_summary == session_state["previous_report_summary"]

\* The step-2 form was submitted in this session with this visit number.
VisitIs(v) == Has(session_state, "visit_number") /\ session_state["visit_number"] = v

\* The prompt the composer builds from the fields stored in a session dict.
PromptOf(ss) ==
    [previous_report_summary |-> ss["previous_report_summary"],
     project |-> ss["project"],
     visit_number |-> ss["visit_number"],
     current_visit_details |-> ss["current_visit_details"],
     media_summary |-> ss["media_summary"],
     visit_date |-> strftime(ss["visit_date"])]

\* C1 (as claimed): a step-4 run submitted with empty details invokes neither
\* generate_journal_report nor the backend and leaves the wizard in step 4.
C1_ValidationGate ==
    (last_run.form = 4 /\ last_run.input.current_visit_details = "")
        => /\ last_run.composer_args = << >>
           /\ last_run.backend_calls = 0
           /\ step = 4

\* C2: a step-2 run that stores visit number "1st" goes to step 4 with an
\* empty previous_report_summary, any other visit number goes to step 3; and
\* a session whose visit number is "1st" is never in step 3, has called
\* neither the extractor nor the summarizer, and keeps the summary empty.
C2_FirstVisitSkip ==
    /\ [][(sid' = sid /\ step = 2 /\ last_run'.form = 2)
            => IF last_run'.input.visit_number = "1st"
               THEN /\ step' = 4
                    /\ session_state'["previous_report_summary"] = << >>
               ELSE step' = 3]_vars
    /\ [](VisitIs("1st")
            => /\ step \in {4, 5}
               /\ session_calls.extractor = 0
               /\ session_calls.summarizer = 0
               /\ Has(session_state, "previous_report_summary")
               /\ previous_report_summary = << >>)

C2_Witness == VisitIs("1st") /\ step = 5 /\ rendered = 5

StepMoves == {<<1, 2>>, <<2, 3>>, <<2, 4>>, <<3, 4>>, <<4, 5>>}

\* C3: within a session the step never decreases, it changes only along
\* 1->2, 2->3, 2->4, 3->4, 4->5, and at step 5 no run changes the step or
\* the stored report.
C3_StrictStepOrder ==
    [][sid' = sid
         => /\ step' >= step
            /\ (step' # step => <<step, step'>> \in StepMoves)
            /\ (step = 5 => /\ step' = 5
                            /\ session_state'["report"] = session_state["report"])]_vars

C3_Witness == step = 5 /\ rendered = 5 /\ VisitIs("2nd") /\ failures > 0

\* C4 (as claimed): after a step-4 run whose backend call failed with
\* QuotaExceeded the credential form is what the user is shown, at once or
\* on the next run.
C4_QuotaRetryPrompt ==
    shown = "QuotaExceeded" => (rendered = 1 \/ step = 1)

\* C5: a step-4 run whose backend call fails leaves the session in step 4
\* with the step-4 form on the screen, stores no report and leaves project,
\* visit_number and previous_report_summary as they were.
C5_BackendFailureStays ==
    [][(step = 4 /\ last_run'.form = 4 /\ shown' \in BackendErrors)
         => /\ step' = 4 /\ rendered' = 4
            /\ ~Has(session_state', "report")
            /\ session_state'["project"] = session_state["project"]
            /\ session_state'["visit_number"] = session_state["visit_number"]
            /\ session_state'["previous_report_summary"] = previous_report_summary]_vars

C5_Witness ==
    /\ step = 4 /\ last_run.form = 4 /\ shown = "Unavailable"
    /\ previous_report_summary # << >>

\* C6: a report is on the screen or offered for download only in step 5; a
\* report is stored exactly in step 5; the run that stores it stores the whole
\* value the backend returned for the prompt built from the stored fields; a
\* run whose backend call failed stores none.
C6_NoPartialReports ==
    /\ [](/\ Screen(session_state).report # << >> => step = 5
          /\ Screen(session_state).download # << >> => step = 5
          /\ Has(session_state, "report") <=> step = 5
          /\ step = 5 => /\ session_state["report"] \in ReportOutputs
                         /\ Screen(session_state).report = <<session_state["report"]>>)
    /\ [][(sid' = sid /\ last_run'.form = 4)
            => IF last_run'.backend_returned # << >>
               THEN /\ step' = 5
                    /\ last_run'.backend_returned = <<session_state'["report"]>>
                    /\ last_run'.composer_args = <<PromptOf(session_state')>>
               ELSE ~Has(session_state', "report")]_vars

C6_Witness ==
    /\ step = 5 /\ failures > 0 /\ session_state["report"] = <<"R", "\n">>
    /\ last_run.form = 4

\* C7 (as claimed): a summarizer call on a text the summarizer has already
\* returned a summary for in this process issues no backend call.
C7_SummarizerMemoized ==
    last_run.repeat_text => last_run.backend_calls = 0

\* C8 (as claimed): a step-3 run whose upload cannot be read shows the error,
\* stores an empty previous_report_summary and moves to step 4.
C8_ExtractionRecovery ==
    shown = "ExtractionError"
        => /\ step = 4
           /\ Has(session_state, "previous_report_summary")
           /\ previous_report_summary = << >>

\* The upload of a step-3 run carries no text: no file, or a readable file
\* whose text is empty.
NoTextUpload(pdf) == pdf = None \/ (~pdf.malformed /\ pdf.paragraphs = << >>)

\* C9: a step-3 run with no file or with a file of empty text calls neither
\* the summarizer nor the backend, stores an empty summary and moves to step
\* 4; and a step-4 run on an empty summary whose backend call answers
\* composes with that empty summary and reaches step 5.
C9_EmptyPriorContext ==
    /\ (last_run.form = 3 /\ NoTextUpload(last_run.input.previous_pdf))
         => /\ last_run.summarizer_calls = 0
            /\ last_run.backend_calls = 0
            /\ shown = ""
            /\ step = 4
            /\ previous_report_summary = << >>
    /\ (last_run.form = 4 /\ previous_report_summary = << >>
                          /\ last_run.backend_returned # << >>)
         => /\ step = 5
            /\ shown = ""
            /\ last_run.composer_args[1].previous_report_summary = << >>
            /\ session_state["report"] = last_run.backend_returned[1]

C9_Witness ==
    /\ step = 5 /\ last_run.form = 4 /\ VisitIs("3rd")
    /\ session_calls.extractor = 1 /\ session_calls.summarizer = 0
    /\ previous_report_summary = << >>

\* C10: a step-1 run with an empty credential shows the error and changes
\* neither the session nor the configured key; with a non-empty credential
\* it stores and configures it and moves to step 2; and every state of step
\* 2 or later has a non-empty credential stored.
C10_CredentialGate ==
    /\ [][(sid' = sid /\ last_run'.form = 1)
            => IF last_run'.input.api_key = ""
               THEN /\ session_state' = session_state
                    /\ step' = 1 /\ rendered' = 1
                    /\ shown' = ApiKeyRequired
                    /\ configured_key' = configured_key
               ELSE /\ step' = 2
                    /\ session_state' = Put(Put(session_state, "api_key",
                                                last_run'.input.api_key), "step", 2)
                    /\ configured_key' = last_run'.input.api_key]_vars
    /\ [](step >= 2 => /\ Has(session_state, "api_key")
                       /\ session_state["api_key"] # "")

C10_Witness == step = 1 /\ shown = ApiKeyRequired /\ ~Has(session_state, "api_key")

\* C11 (as claimed): a session that has accepted nothing yet is in step 1,
\* unless a credential is pre-loaded in the environment, in which case the
\* session is already past step 1 without a typed credential.
C11_OutOfBandCredential ==
    IF configured_key = "AIza-env"
    THEN step >= 2
    ELSE (session_calls.accepted = 0 => step = 1)

\* A run writes field f: it appears, disappears or changes value.
Written(f) ==
    \/ Has(session_state, f) # Has(session_state', f)
    \/ Has(session_state, f) /\ session_state'[f] # session_state[f]

OwnedFields ==
    {"api_key", "project", "visit_number", "previous_report_summary",
     "current_visit_details", "media_summary", "visit_date", "report"}

\* The step of the wizard that collects each field.
OwnerStep(f) ==
    CASE f = "api_key" -> 1
      [] f \in {"project", "visit_number"} -> 2
      [] f = "previous_report_summary" -> 3
      [] OTHER -> 4

\* The steps whose runs write each field in the code.
WriterSteps(f) ==
    IF f = "previous_report_summary" THEN {2, 3} ELSE {OwnerStep(f)}

\* C12 (as claimed): within a session a field is written only by a run of the
\* one step that owns it.
C12_OwnerOnlyOriginal ==
    [][sid' = sid => \A f \in OwnedFields : Written(f) => step = OwnerStep(f)]_vars

\* C12 (amended): within a session a field is written only by a run of its
\* owning step, previous_report_summary by step 2 (first visit) or step 3;
\* a run made at a step past a field's writers leaves the field as it is, and
\* no run overwrites a field an earlier step stored.
C12_OwnerOnly ==
    [][sid' = sid
         => \A f \in OwnedFields :
               /\ Written(f) => step \in WriterSteps(f)
               /\ (\A w \in WriterSteps(f) : step > w) => ~Written(f)
               /\ (Written(f) /\ Has(session_state, f)) => step = OwnerStep(f)]_vars

C12_Witness ==
    /\ step = 5 /\ rendered = 5 /\ session_calls.composer = 2
    /\ previous_report_summary = <<"S">>

\* The session uploaded no prior document: the extractor was never called.
NoPriorDocument == session_calls.extractor = 0

\* C13 (as claimed): a session with a visit number other than "1st" and no
\* prior document has issued exactly one backend call when it is in step 5.
C13_ExactlyOneOriginal ==
    (step = 5 /\ ~VisitIs("1st") /\ NoPriorDocument) => session_calls.backend = 1

\* C13 (amended): a step-4 run that succeeds issues exactly one backend call
\* for one prompt; a session with a visit number other than "1st" and no
\* prior document that is in step 5 has issued one backend call per step-4
\* submission it made, so exactly one when none of them failed; and its one
\* report is offered as journal_report.txt.
C13_ExactlyOneCall ==
    /\ (last_run.form = 4 /\ last_run.backend_returned # << >>)
         => /\ last_run.backend_calls = 1
            /\ Len(last_run.composer_args) = 1
    /\ (step = 5 /\ ~VisitIs("1st") /\ NoPriorDocument)
         => /\ session_calls.backend = session_calls.composer
            /\ session_calls.summarizer = 0
            /\ (session_calls.composer = 1 => session_calls.backend = 1)
            /\ Len(Screen(session_state).download) = 1
            /\ Screen(session_state).download[1].file_name = "journal_report.txt"

C13_Witness ==
    /\ step = 5 /\ NoPriorDocument /\ session_calls.backend = 1
    /\ VisitIs("2nd") /\ session_state["project"] = "Health Camp"
    /\ session_state["current_visit_details"] = "Distributed medicine to 40 villagers."

\* C14: the run that receives the backend's answer stores it, shows it and
\* offers it for download as it is, under the name journal_report.txt with
\* type text/plain; later runs of the session show and offer the same.
C14_UnmodifiedOutput ==
    /\ [][(last_run'.form = 4 /\ last_run'.backend_returned # << >>)
            => LET answer == last_run'.backend_returned[1]
               IN  /\ session_state'["report"] = answer
                   /\ Screen(session_state').report = <<answer>>
                   /\ Screen(session_state').download
                        = <<[data |-> answer, file_name |-> "journal_report.txt",
                             mime |-> "text/plain"]>>]_vars
    /\ [][(sid' = sid /\ step = 5)
            => Screen(session_state') = Screen(session_state)]_vars

C14_Witness ==
    /\ step = 5 /\ rendered = 5
    /\ Screen(session_state).download[1].data = <<"R", "\n">>

\* C15: within a session previous_report_summary is written only as the
\* empty string or, by a step-3 run, as the value summarize_pdf_text returned
\* in that run for the text extracted from the file uploaded in that run; so
\* at any time it is empty or one of the summarizer's possible values.
C15_SummaryProvenance ==
    /\ [][(sid' = sid /\ Written("previous_report_summary"))
            => \/ session_state'["previous_report_summary"] = << >>
               \/ /\ step = 3 /\ last_run'.form = 3
                  /\ last_run'.summarizer_returned
                       = <<session_state'["previous_report_summary"]>>
                  /\ last_run'.input.previous_pdf # None
                  /\ ~extract_text_from_pdf(last_run'.input.previous_pdf).raised
                  /\ extract_text_from_pdf(last_run'.input.previous_pdf).value
                       \in summarized']_vars
    /\ [](Has(session_state, "previous_report_summary")
            => \/ previous_report_summary = << >>
               \/ /\ session_calls.summarizer > 0
                  /\ \E o \in SummaryOutputs : previous_report_summary = Strip(o))

C15_Witness ==
    /\ step = 4 /\ last_run.form = 3
    /\ previous_report_summary = <<"S">>
    /\ last_run.summarizer_returned = <<previous_report_summary>>

CollectedFields ==
    {"api_key", "project", "visit_number", "previous_report_summary", "media_files",
     "current_visit_details", "media_summary", "visit_date"}

\* The collected fields of a session dict.
Collected(ss) == [f \in DOMAIN ss \cap CollectedFields |-> ss[f]]

\* A form that is on the screen, submitted twice with the same inputs, leaves
\* what one submission leaves: whatever the first submission's outcome was
\* (o1), if it left the wizard in the step, the second (outcome o2) ends in
\* the session dict a single submission with outcome o2 ends in.
Step1Idempotent ==
    \A k \in ApiKeys :
      \A r1 \in {step1_submit(session_state, k)} :
        r1.ss["step"] = 1
          => step1_submit(r1.ss, k).ss = step1_submit(session_state, k).ss

Step3Idempotent ==
    \A pdf \in PdfFiles \cup {None} :
      \A f1 \in FailPoints(pdf), e \in BackendErrors, o \in SummaryOutputs :
        \A r1 \in {step3_submit(session_state, pdf, f1, e, o)} :
          r1.ss["step"] = 3
            => \A f2 \in FailPoints(pdf) :
                 step3_submit(r1.ss, pdf, f2, e, o).ss
                   = step3_submit(session_state, pdf, f2, e, o).ss

\* C16: in every state where the step-1 or step-3 form is on the screen,
\* submitting it twice with the same inputs ends where a single submission
\* ends; and a run that resubmits the inputs of the run before it leaves every
\* collected field as that run left it (a single submission's fields), adds
\* at step 3 only the summary, and at step 4 moves to step 5 with the
\* backend's answer as the report exactly when the backend answers.
C16_IdempotentResubmission ==
    /\ []((rendered = 1 /\ step = 1) => Step1Idempotent)
    /\ []((rendered = 3 /\ step = 3) => Step3Idempotent)
    /\ [][(sid' = sid /\ last_run'.resubmit)
            => /\ \A f \in DOMAIN session_state \cap CollectedFields :
                     /\ Has(session_state', f)
                     /\ session_state'[f] = session_state[f]
               /\ DOMAIN session_state' \ DOMAIN session_state
                     \subseteq {"previous_report_summary", "report"}
               /\ last_run'.form = 4
                    => /\ Collected(session_state') = Collected(session_state)
                       /\ IF last_run'.backend_returned # << >>
                          THEN /\ step' = 5
                               /\ <<session_state'["report"]>>
                                    = last_run'.backend_returned
                          ELSE step' = 4 /\ ~Has(session_state', "report")]_vars

C16_Witness ==
    /\ last_run.resubmit /\ last_run.form = 4 /\ step = 5
    /\ session_state["media_files"] # << >>

\* C17: a step-3 run in which a backend call of the summarizer fails makes
\* one summarizer call that stops at the failing backend call (no call is
\* repeated), shows the backend's error, and leaves the session dict as it
\* was: still step 3, no previous_report_summary.
C17_SummarizerFailure ==
    /\ [][(step = 3 /\ last_run'.form = 3 /\ shown' \in BackendErrors)
            => /\ session_state' = session_state
               /\ rendered' = 3
               /\ last_run'.summarizer_calls = 1
               /\ last_run'.summarizer_returned = << >>
               /\ last_run'.backend_calls
                    \in 1..MapReduceCalls(last_run'.input.previous_pdf.paragraphs)
               /\ summarized' = summarized]_vars
    /\ [](step = 3 => ~Has(session_state, "previous_report_summary"))
    /\ []((last_run.form = 3 /\ last_run.summarizer_calls > 0)
            => /\ last_run.backend_calls
                    <= MapReduceCalls(last_run.input.previous_pdf.paragraphs)
               /\ (shown = "") = (step = 4))

C17_Witness ==
    /\ step = 3 /\ shown = "QuotaExceeded" /\ last_run.form = 3
    /\ last_run.backend_calls = 2

\* C18: step >= 2 implies a non-empty api_key is stored; step >= 3 implies
\* project and visit_number are stored; step >= 4 implies
\* previous_report_summary is stored; step = 5 implies report,
\* current_visit_details, media_summary and visit_date are stored.
C18_DefinedBeforeUse ==
    /\ step >= 2 => Has(session_state, "api_key") /\ session_state["api_key"] # ""
    /\ step >= 3 => /\ Has(session_state, "project")
                    /\ Has(session_state, "visit_number")
    /\ step >= 4 => /\ Has(session_state, "previous_report_summary")
                    /\ Get(session_state, "previous_report_summary", <<"default">>)
                         = previous_report_summary
    /\ step = 5 => {"report", "current_visit_details", "media_summary", "visit_date"}
                      \subseteq DOMAIN session_state

C18_Witness ==
    /\ step = 5 /\ VisitIs("1st") /\ last_run.form = 4
    /\ last_run.composer_args[1].previous_report_summary = << >>

\* C19: a session that has issued a backend call has a non-empty credential
\* stored and the library configured with a typed credential; and a run that
\* calls the summarizer is made before the session's first composer call.
C19_CredentialBeforeBackend ==
    /\ [](session_calls.backend > 0
            => /\ Has(session_state, "api_key")
               /\ session_state["api_key"] # ""
               /\ configured_key \in ApiKeys \ {""})
    /\ [][(sid' = sid /\ last_run'.summarizer_calls > 0)
            => /\ session_calls.composer = 0
               /\ session_calls'.composer = 0]_vars
    /\ [](session_calls.composer > 0 => step \in {4, 5})
    /\ [](session_calls.summarizer > 0 => step \in {3, 4, 5})

C19_Witness ==
    /\ step = 5 /\ session_calls.summarizer = 1 /\ session_calls.composer = 2
    /\ session_calls.backend = 5

\* C20: when nothing fails and the user keeps submitting, the session reaches
\* step 5; it is there after exactly three accepted submissions for a "1st"
\* visit and exactly four for any other visit number, and never before.
C20_Progress ==
    /\ <>(step = 5)
    /\ [](step = 5 => session_calls.accepted = IF VisitIs("1st") THEN 3 ELSE 4)
    /\ [](step < 5 => session_calls.accepted < IF VisitIs("1st") THEN 3 ELSE 4)

C20_Witness ==
    /\ step = 5 /\ rendered = 5 /\ session_calls.accepted = 4
    /\ session_calls.summarizer = 1

====
